---- MODULE Spec2Model ----
(***************************************************************************)
(* A model of the chunked download Reader (package b2: Reader.Read,        *)
(* Reader.thread, Reader.curChunk, Reader.Close) and of the large file     *)
(* upload session of package base (FileChunk.UploadPart,                   *)
(* LargeFile.FinishLargeFile).                                             *)
(*                                                                         *)
(* Goroutines are processes with a program counter.  The goroutines of     *)
(* Reader.thread and of Reader.curChunk are anonymous, so each kind is     *)
(* kept as a bag of goroutine states.  A step that runs under r.rmux is    *)
(* enabled only while no curChunk goroutine holds it.  Channel selects     *)
(* follow the Go semantics: a goroutine parked in a select is committed by *)
(* the first event that makes one of its cases ready.                      *)
(***************************************************************************)
EXTENDS Integers, Sequences, FiniteSets, Bags, TLC

\* ------------------------------------------------------------- bounds
MaxSize == 2        \* object sizes 0..MaxSize
MaxChunk == 1       \* configured ChunkSize 0..MaxChunk (0: unset)
MaxConc == 2        \* configured ConcurrentDownloads 0..MaxConc (0: unset)
MaxP == 1           \* len(p) of a Read call, 1..MaxP
MaxWaiters == 2     \* live curChunk goroutines at any time
MaxPart == 3        \* part numbers of UploadPart calls, 0..MaxPart
MaxPartSize == 2    \* size argument of an UploadPart call, 1 or MaxPartSize
MaxUploads == 3     \* UploadPart calls on one LargeFile
MaxRetry == 13      \* Retry-After values -MaxRetry..MaxRetry

\* ---------------------------------------------------------- constants
DefaultChunkSize == 10000000
NilBuf == 0

NoErr == "nil"
EOF == "EOF"
Canceled == "context canceled"
ErrRequest == "range request failed"
ErrCopy == "copy failed"
Panic == "panic"

\* ErrAction.
ReAuthenticate == 0
AttemptNewUpload == 1
Retry == 2
Punt == 3

\* time.Duration is an int64 count of nanoseconds and time.Second is 10^9
\* of them.  The model keeps the wraparound of the product in Backoff with
\* a narrower word: DurationBits bits, Second ticks in a second.
DurationBits == 8
Second == 10

WaiterPcs == {"lock", "wait", "parked", "send", "unlock"}

\* The sha1 arguments of the UploadPart calls; "" is the zero string.
Digests == {"dA", "dB", "dC"}
\* the errors of a b2_upload_part request: a b2err, a transport error, ctx.Err()
UploadErrs == {"b2err", "transport error", Canceled}
EmptyString == ""

VARIABLES
    \* Reader fields
    size, ChunkSize, ConcurrentDownloads, csize, cr, inited, ctxDone,
    read, chwid, chrid, chbuf, chbufClosed, bufs, chunks, err,
    \* the goroutines of Reader.thread: a bag of [pc, buf, id]
    threads,
    \* the goroutines of Reader.curChunk: how many are at each position
    waiters,
    \* the consumer inside Reader.Read
    rdpc, rdp, rdbuf, rdres,
    \* history: the bytes Read has delivered, the first latched error a Read
    \* returned and how many Reads (up to 2) returned the latched error,
    \* whether a Read returned io.EOF, whether a chunk was stored before a
    \* chunk of lower index, whether Close woke the parked Read
    out, latched, nLatched, eofSeen, reordered, blockedAtClose,
    \* history: the chunk indexes in the order in which the workers claimed
    \* them, and the Range headers of the requests the workers issued
    claimed, requested,
    \* LargeFile fields: hashes, size (lsize), and who holds mu
    hashes, lsize, mu,
    \* the UploadPart calls that hold mu: a bag of [pc, index, sha1, size]
    uploads,
    \* FinishLargeFile: its position, b2req.Hashes and what it returned
    fpc, manifest, fres,
    \* history: how many UploadPart calls were made, and the part numbers in
    \* the order in which they were first recorded
    nUploads, order,
    \* history: the size argument of the call that recorded each part, the
    \* sum of the size arguments and the digest per part number of the calls
    \* whose request succeeded
    psize, accepted, sent,
    \* history: the sum of the size arguments of the records that a later
    \* call for the same part number replaced
    replaced,
    \* history: what the latest UploadPart call to return returned (n, err),
    \* and the error its makeRequest returned (cause)
    ures,
    \* one makeRequest call: the request with the reply it will get, its
    \* position, the error it returned, and what Action and Backoff say of
    \* that error ("none" / 0 until they are applied)
    creq, cpc, cerr, cact, cback

rvars == <<size, ChunkSize, ConcurrentDownloads, csize, cr, inited, ctxDone,
          read, chwid, chrid, chbuf, chbufClosed, bufs, chunks, err,
          threads, waiters, rdpc, rdp, rdbuf, rdres,
          out, latched, nLatched, eofSeen, reordered, blockedAtClose,
          claimed, requested>>

uvars == <<hashes, lsize, mu, uploads, fpc, manifest, fres, nUploads, order,
           psize, accepted, sent, replaced, ures>>

cvars == <<creq, cpc, cerr, cact, cback>>

vars == <<rvars, uvars, cvars>>

\* ------------------------------------------------------------ helpers
Min(a, b) == IF a < b THEN a ELSE b

SubSeqOrEmpty(s, lo, hi) == IF lo > hi THEN <<>> ELSE SubSeq(s, lo, hi)

\* The object stored at the service: the byte at offset i is i.
Object == [i \in 1 .. size |-> i - 1]

\* mkRange: the Range header for (offset, size); <<>> is no header,
\* <<lo>> is "bytes=lo-", <<lo, hi>> is "bytes=lo-hi".
mkRange(offset, sz) ==
    IF offset = 0 /\ sz = 0 THEN <<>>
    ELSE IF sz = 0 THEN <<offset>>
    ELSE <<offset, offset + sz - 1>>

\* The body the service answers to a request with that Range header.
ServerBody(rng) ==
    IF Len(rng) = 0 THEN Object
    ELSE IF Len(rng) = 1 THEN SubSeqOrEmpty(Object, rng[1] + 1, size)
    ELSE SubSeqOrEmpty(Object, rng[1] + 1, Min(rng[2] + 1, size))

\* thread: offset and clamped size of the chunk a worker claimed.
ChunkOffset(chunkID) == chunkID * csize

ChunkLen(offset) ==
    IF offset + csize > size THEN size - offset ELSE csize

\* Mutant of SetErr: the last error is kept.
SetErrLast(e) == e

\* setErr: the first error is kept.
SetErr(e) == IF err = NoErr THEN e ELSE err

\* r.chunks[i], nil when absent.
ChunkAt(i) == IF i \in DOMAIN chunks THEN chunks[i] ELSE NilBuf

\* r.rmux is held by a curChunk goroutine from Lock to the deferred
\* Unlock, except while it is parked in rcond.Wait.
RmuxFree == waiters["wait"] + waiters["send"] + waiters["unlock"] = 0

WaiterCount ==
    waiters["lock"] + waiters["wait"] + waiters["parked"]
    + waiters["send"] + waiters["unlock"]

Move(from, to) == [waiters EXCEPT ![from] = @ - 1, ![to] = @ + 1]

\* rcond.Broadcast: every goroutine parked in Wait goes back to Lock.
Broadcast ==
    [waiters EXCEPT !["parked"] = 0, !["lock"] = @ + waiters["parked"]]

\* One goroutine of thread goes from state t to state t2.
ThreadMove(t, t2) == (threads (-) SetToBag({t})) (+) SetToBag({t2})

AtPc(pc) == {t \in BagToSet(threads) : t.pc = pc}

\* Mutant of CtxErr: the latched error of the Reader instead.
CtxErrLatched == err

\* ctx.Err() of the cancelled context.
CtxErr == Canceled

\* --------------------------------------------------------------- Init
\* StartLargeFile: the LargeFile with an empty map of hashes.
StartLargeFile ==
    /\ hashes = <<>>
    /\ lsize = 0
    /\ mu = "free"
    /\ uploads = EmptyBag
    /\ fpc = "idle"
    /\ manifest = <<>>
    /\ fres = [err |-> NoErr, size |-> 0]
    /\ nUploads = 0
    /\ order = <<>>
    /\ psize = <<>>
    /\ accepted = 0
    /\ sent = <<>>
    /\ replaced = 0
    /\ ures = [n |-> 0, err |-> NoErr, cause |-> NoErr]

\* The Reader as its owner builds it: the three exported fields are set.
NewReader ==
    /\ size \in 0 .. MaxSize
    /\ ChunkSize \in 0 .. MaxChunk
    /\ ConcurrentDownloads \in 0 .. MaxConc
    /\ csize = 0
    /\ cr = 0
    /\ inited = FALSE
    /\ ctxDone = FALSE
    /\ read = 0
    /\ chwid = 0
    /\ chrid = 0
    /\ chbuf = <<>>
    /\ chbufClosed = FALSE
    /\ bufs = [b \in 1 .. MaxConc |-> <<>>]
    /\ chunks = <<>>
    /\ err = NoErr
    /\ threads = EmptyBag
    /\ waiters = [p \in WaiterPcs |-> 0]
    /\ rdpc = "idle"
    /\ rdp = 0
    /\ rdbuf = NilBuf
    /\ rdres = [n |-> 0, err |-> NoErr]
    /\ out = <<>>
    /\ latched = NoErr
    /\ nLatched = 0
    /\ eofSeen = FALSE
    /\ reordered = FALSE
    /\ blockedAtClose = FALSE
    /\ claimed = <<>>
    /\ requested = EmptyBag

\* An error value: a b2err with its fields, or another error (kind).
Err(kind, method, retry, code) ==
    [kind |-> kind, method |-> method, retry |-> retry, code |-> code]

NilErr == Err("nil", "", 0, 0)

OtherErr(kind) == Err(kind, "", 0, 0)

\* A Retry-After header: absent, a decimal integer, or an HTTP date.
Header(form, n) == [form |-> form, n |-> n]

\* What the network answers to a request.
Reply(kind, code, header, body) ==
    [kind |-> kind, code |-> code, header |-> header, body |-> body]

\* No makeRequest call is followed.
NoRequest ==
    /\ creq = [method |-> "", reply |-> Reply("none", 0, Header("absent", 0), "json")]
    /\ cpc = "idle"
    /\ cerr = NilErr
    /\ cact = Punt
    /\ cback = 0

Init == NewReader /\ StartLargeFile /\ NoRequest

\* ------------------------------------------------------------ Reader
\* initFunc: the pool of cr buffers and the cr workers.
InitCr == IF ConcurrentDownloads < 1 THEN 1 ELSE ConcurrentDownloads

InitChunkSize == IF ChunkSize < 1 THEN DefaultChunkSize ELSE ChunkSize

\* Mutant of PoolSeed: one buffer too many.
PoolSeedOneMore == [i \in 1 .. InitCr + 1 |-> i]

\* The buffers initFunc sends to the pool, one per worker.
PoolSeed == [i \in 1 .. InitCr |-> i]

initFunc ==
    /\ ChunkSize' = InitChunkSize
    /\ csize' = InitChunkSize
    /\ cr' = InitCr
    /\ chbuf' = PoolSeed
    /\ threads' = [t \in {[pc |-> "take", buf |-> NilBuf, id |-> 0]} |-> InitCr]
    /\ inited' = TRUE

\* Read, up to the select of curChunk: init.Do, the curChunk goroutine is
\* started, and the caller parks in the select, or finds the context done.
ReadCall(n) ==
    /\ rdpc = "idle"
    /\ WaiterCount < MaxWaiters
    /\ IF inited
         THEN UNCHANGED <<ChunkSize, csize, cr, chbuf, threads, inited>>
         ELSE initFunc
    /\ waiters' = [waiters EXCEPT !["lock"] = @ + 1]
    /\ rdpc' = IF ctxDone THEN "done" ELSE "recv"
    /\ rdp' = n
    /\ UNCHANGED <<size, ConcurrentDownloads, ctxDone, read, chwid, chrid,
                   chbufClosed, bufs, chunks, err, rdbuf, rdres,
                   out, latched, nLatched, eofSeen, reordered, blockedAtClose>>
    /\ UNCHANGED <<claimed, requested, uvars, cvars>>

\* curChunk's Done case: Read returns 0 and ctx.Err().
ReadCancel ==
    /\ rdpc = "done"
    /\ rdpc' = "idle"
    /\ rdp' = 0
    /\ rdres' = [n |-> 0, err |-> CtxErr]
    /\ blockedAtClose' = FALSE
    /\ UNCHANGED <<size, ChunkSize, ConcurrentDownloads, csize, cr, inited,
                   ctxDone, read, chwid, chrid, chbuf, chbufClosed, bufs,
                   chunks, err, threads, waiters, rdbuf,
                   out, latched, nLatched, eofSeen, reordered>>
    /\ UNCHANGED <<claimed, requested, uvars, cvars>>

\* bytes.Buffer.Read on the chunk: how many bytes a call with len(p) = n
\* copies out of a buffer holding data.
BufferReadN(data, n) == Min(n, Len(data))

\* The consume index after a chunk was drained before the end of data.
NextChrid == chrid + 1

\* Mutant of AtEnd: the end of data is found one byte early.
AtEndEarly == read + 1 >= size

\* The test for the end of data once the chunk is drained.
AtEnd == read >= size

\* Read, after curChunk returned the buffer: the error check, chunk.Read,
\* and the end of chunk / end of data handling.  The send of the drained
\* buffer to the pool blocks while the pool is full.
ReadBody ==
    /\ rdpc = "got"
    /\ LET data == bufs[rdbuf]
           n == BufferReadN(data, rdp)
       IN
       IF err # NoErr THEN
           /\ rdres' = [n |-> 0, err |-> err]
           /\ latched' = IF latched = NoErr THEN err ELSE latched
           /\ nLatched' = Min(nLatched + 1, 2)
           /\ UNCHANGED <<read, chrid, chbuf, chbufClosed, bufs, out, eofSeen>>
       ELSE IF Len(data) > 0 \/ rdp = 0 THEN
           /\ out' = out \o SubSeqOrEmpty(data, 1, n)
           /\ bufs' = [bufs EXCEPT ![rdbuf] = SubSeqOrEmpty(data, n + 1, Len(data))]
           /\ read' = read + n
           /\ rdres' = [n |-> n, err |-> NoErr]
           /\ UNCHANGED <<chrid, chbuf, chbufClosed, latched, nLatched, eofSeen>>
       ELSE IF AtEnd THEN
           /\ IF chbufClosed
                THEN /\ rdres' = [n |-> 0, err |-> Panic]
                     /\ UNCHANGED <<chbufClosed, eofSeen>>
                ELSE /\ chbufClosed' = TRUE
                     /\ rdres' = [n |-> 0, err |-> EOF]
                     /\ eofSeen' = TRUE
           /\ UNCHANGED <<read, chrid, chbuf, bufs, out, latched, nLatched>>
       ELSE
           /\ chbufClosed \/ Len(chbuf) < cr
           /\ chrid' = NextChrid
           /\ IF chbufClosed
                THEN /\ rdres' = [n |-> 0, err |-> Panic]
                     /\ UNCHANGED chbuf
                ELSE /\ chbuf' = Append(chbuf, rdbuf)
                     /\ rdres' = [n |-> 0, err |-> NoErr]
           /\ UNCHANGED <<read, chbufClosed, bufs, out, latched, nLatched, eofSeen>>
    /\ rdpc' = "idle"
    /\ rdp' = 0
    /\ rdbuf' = NilBuf
    /\ UNCHANGED <<size, ChunkSize, ConcurrentDownloads, csize, cr, inited,
                   ctxDone, chwid, chunks, err, threads, waiters,
                   reordered, blockedAtClose>>
    /\ UNCHANGED <<claimed, requested, uvars, cvars>>

\* Close: cancels the context and returns nil.  A Read parked in the
\* select of curChunk is woken by the Done case.
Close ==
    /\ ctxDone' = TRUE
    /\ rdpc' = IF rdpc = "recv" THEN "done" ELSE rdpc
    /\ blockedAtClose' = (blockedAtClose \/ rdpc = "recv")
    /\ UNCHANGED <<size, ChunkSize, ConcurrentDownloads, csize, cr, inited,
                   read, chwid, chrid, chbuf, chbufClosed, bufs, chunks, err,
                   threads, waiters, rdp, rdbuf, rdres, out, latched, nLatched, eofSeen,
                   reordered>>
    /\ UNCHANGED <<claimed, requested, uvars, cvars>>

\* ---------------------------------------------------------- curChunk
\* The loop condition of curChunk.
MustWait == ChunkAt(chrid) = NilBuf /\ err = NoErr

\* rmux.Lock (at the start, or on return from rcond.Wait) and the test of
\* the loop condition.
CurCheck ==
    /\ waiters["lock"] > 0
    /\ RmuxFree
    /\ waiters' = Move("lock", IF MustWait THEN "wait" ELSE "send")
    /\ UNCHANGED <<size, ChunkSize, ConcurrentDownloads, csize, cr, inited,
                   ctxDone, read, chwid, chrid, chbuf, chbufClosed, bufs,
                   chunks, err, threads, rdpc, rdp, rdbuf, rdres,
                   out, latched, nLatched, eofSeen, reordered, blockedAtClose>>
    /\ UNCHANGED <<claimed, requested, uvars, cvars>>

\* rcond.Wait: joins the notify list and releases rmux.
CurWait ==
    /\ waiters["wait"] > 0
    /\ waiters' = Move("wait", "parked")
    /\ UNCHANGED <<size, ChunkSize, ConcurrentDownloads, csize, cr, inited,
                   ctxDone, read, chwid, chrid, chbuf, chbufClosed, bufs,
                   chunks, err, threads, rdpc, rdp, rdbuf, rdres,
                   out, latched, nLatched, eofSeen, reordered, blockedAtClose>>
    /\ UNCHANGED <<claimed, requested, uvars, cvars>>

\* The select of the goroutine: hands the chunk to the parked Read, or
\* leaves by the Done case.
CurSelect ==
    /\ waiters["send"] > 0
    /\ waiters' = Move("send", "unlock")
    /\ IF ctxDone
         THEN UNCHANGED <<rdpc, rdbuf>>
         ELSE /\ rdpc = "recv"
              /\ rdpc' = "got"
              /\ rdbuf' = ChunkAt(chrid)
    /\ UNCHANGED <<size, ChunkSize, ConcurrentDownloads, csize, cr, inited,
                   ctxDone, read, chwid, chrid, chbuf, chbufClosed, bufs,
                   chunks, err, threads, rdp, rdres,
                   out, latched, nLatched, eofSeen, reordered, blockedAtClose>>
    /\ UNCHANGED <<claimed, requested, uvars, cvars>>

\* The deferred Unlock; the goroutine ends.
CurUnlock ==
    /\ waiters["unlock"] > 0
    /\ waiters' = [waiters EXCEPT !["unlock"] = @ - 1]
    /\ UNCHANGED <<size, ChunkSize, ConcurrentDownloads, csize, cr, inited,
                   ctxDone, read, chwid, chrid, chbuf, chbufClosed, bufs,
                   chunks, err, threads, rdpc, rdp, rdbuf, rdres,
                   out, latched, nLatched, eofSeen, reordered, blockedAtClose>>
    /\ UNCHANGED <<claimed, requested, uvars, cvars>>

\* ------------------------------------------------------------ thread
\* The select at the head of the loop: a buffer of the pool, the closed
\* and drained pool, or the done context.
ThreadTake ==
    \E t \in AtPc("take") : \E c \in {"buf", "closed", "done"} :
        /\ c = "buf" => Len(chbuf) > 0
        /\ c = "closed" => Len(chbuf) = 0 /\ chbufClosed
        /\ c = "done" => ctxDone
        /\ IF c = "buf"
             THEN /\ threads' = ThreadMove(t, [t EXCEPT !.pc = "claim",
                                                        !.buf = Head(chbuf)])
                  /\ chbuf' = Tail(chbuf)
             ELSE /\ threads' = ThreadMove(t, [t EXCEPT !.pc = "exit"])
                  /\ UNCHANGED chbuf
        /\ UNCHANGED <<size, ChunkSize, ConcurrentDownloads, csize, cr, inited,
                       ctxDone, read, chwid, chrid, chbufClosed, bufs, chunks,
                       err, waiters, rdpc, rdp, rdbuf, rdres,
                       out, latched, nLatched, eofSeen, reordered, blockedAtClose>>
        /\ UNCHANGED <<claimed, requested, uvars, cvars>>

\* The state of a worker that claimed chunkID: it returns when the chunk
\* starts at or after the end of the object.
Claimed(t, chunkID) ==
    IF ChunkOffset(chunkID) >= size
      THEN [pc |-> "exit", buf |-> NilBuf, id |-> 0]
      ELSE [t EXCEPT !.pc = "download", !.id = chunkID]

\* Mutant of NextChwid: the dispatch counter is left as it was.
NextChwidSame == chwid

\* r.chwid++.
NextChwid == chwid + 1

\* The claim of the next chunk index under rmux, and the end test.
ThreadClaim ==
    \E t \in AtPc("claim") :
        /\ RmuxFree
        /\ chwid' = NextChwid
        /\ threads' = ThreadMove(t, Claimed(t, chwid))
        /\ claimed' = Append(claimed, chwid)
        /\ UNCHANGED <<size, ChunkSize, ConcurrentDownloads, csize, cr, inited,
                       ctxDone, read, chrid, chbuf, chbufClosed, bufs, chunks,
                       err, waiters, rdpc, rdp, rdbuf, rdres,
                       out, latched, nLatched, eofSeen, reordered, blockedAtClose>>
        /\ UNCHANGED <<requested, uvars, cvars>>

\* DownloadFileByName and copyContext into the buffer.  The request ends
\* with the reply, a failure or the done context; the copy checks the
\* context before every read and ends with the body copied, the context
\* error or a read error.
ThreadDownload ==
    \E t \in AtPc("download") :
    \E c \in {"ok", "failRequest", "failCopy", "done"} :
        /\ c = "done" => ctxDone
        /\ c \in {"ok", "failCopy"} => ~ctxDone
        /\ requested' = requested (+) SetToBag({mkRange(ChunkOffset(t.id),
                                                 ChunkLen(ChunkOffset(t.id)))})
        /\ IF c = "ok"
             THEN /\ bufs' = [bufs EXCEPT ![t.buf] =
                       @ \o ServerBody(mkRange(ChunkOffset(t.id),
                                               ChunkLen(ChunkOffset(t.id))))]
                  /\ threads' = ThreadMove(t, [t EXCEPT !.pc = "store"])
                  /\ UNCHANGED err
             ELSE /\ err' = SetErr(CASE c = "failRequest" -> ErrRequest
                                     [] c = "failCopy" -> ErrCopy
                                     [] OTHER -> CtxErr)
                  /\ threads' = ThreadMove(t, [pc |-> "bcastErr",
                                               buf |-> NilBuf, id |-> 0])
                  /\ UNCHANGED bufs
        /\ UNCHANGED <<size, ChunkSize, ConcurrentDownloads, csize, cr, inited,
                       ctxDone, read, chwid, chrid, chbuf, chbufClosed,
                       chunks, waiters, rdpc, rdp, rdbuf, rdres,
                       out, latched, nLatched, eofSeen, reordered, blockedAtClose>>
        /\ UNCHANGED <<claimed, uvars, cvars>>

\* Mutant of StoreChunk: the chunk is filed in order of completion.
StoreChunkByArrival(m, chunkID, buf) ==
    [i \in DOMAIN m \cup {Cardinality(DOMAIN m)} |->
        IF i = Cardinality(DOMAIN m) THEN buf ELSE m[i]]

\* r.chunks[chunkID] = buf.
StoreChunk(m, chunkID, buf) ==
    [i \in DOMAIN m \cup {chunkID} |-> IF i = chunkID THEN buf ELSE m[i]]

\* The store of the completed chunk under rmux.
ThreadStore ==
    \E t \in AtPc("store") :
        /\ RmuxFree
        /\ chunks' = StoreChunk(chunks, t.id, t.buf)
        /\ threads' = ThreadMove(t, [pc |-> "bcast", buf |-> NilBuf, id |-> 0])
        /\ reordered' = (reordered \/ \E j \in 0 .. t.id - 1 : j \notin DOMAIN chunks)
        /\ UNCHANGED <<size, ChunkSize, ConcurrentDownloads, csize, cr, inited,
                       ctxDone, read, chwid, chrid, chbuf, chbufClosed, bufs,
                       err, waiters, rdpc, rdp, rdbuf, rdres,
                       out, latched, nLatched, eofSeen, blockedAtClose>>
        /\ UNCHANGED <<claimed, requested, uvars, cvars>>

\* rcond.Broadcast after a store (the loop goes on) or after setErr (the
\* worker returns).
ThreadBroadcast ==
    \E t \in AtPc("bcast") \cup AtPc("bcastErr") :
        /\ waiters' = Broadcast
        /\ threads' = ThreadMove(t, [t EXCEPT !.pc =
                          IF t.pc = "bcast" THEN "take" ELSE "exit"])
        /\ UNCHANGED <<size, ChunkSize, ConcurrentDownloads, csize, cr, inited,
                       ctxDone, read, chwid, chrid, chbuf, chbufClosed, bufs,
                       chunks, err, rdpc, rdp, rdbuf, rdres,
                       out, latched, nLatched, eofSeen, reordered, blockedAtClose>>
        /\ UNCHANGED <<claimed, requested, uvars, cvars>>

thread ==
    \/ ThreadTake
    \/ ThreadClaim
    \/ ThreadDownload
    \/ ThreadStore
    \/ ThreadBroadcast

curChunk == CurCheck \/ CurWait \/ CurSelect \/ CurUnlock

Read == (\E n \in 1 .. MaxP : ReadCall(n)) \/ ReadCancel \/ ReadBody

Next ==
    \/ Read
    \/ Close
    \/ curChunk
    \/ thread

Spec == Init /\ [][Next]_vars

\* Every goroutine that can run is eventually run; a goroutine waiting for
\* rmux eventually gets it.
Fairness ==
    /\ WF_vars(ReadCancel) /\ WF_vars(ReadBody)
    /\ SF_vars(CurCheck) /\ WF_vars(CurWait)
    /\ WF_vars(CurSelect) /\ WF_vars(CurUnlock)
    /\ WF_vars(ThreadTake) /\ SF_vars(ThreadClaim)
    /\ WF_vars(ThreadDownload) /\ SF_vars(ThreadStore)
    /\ WF_vars(ThreadBroadcast)

FairSpec == Init /\ [][Next]_vars /\ Fairness

\* The same, with a consumer that keeps calling Read.
FairReadSpec ==
    Init /\ [][Next]_vars /\ Fairness /\ WF_vars(\E n \in 1 .. MaxP : ReadCall(n))

\* ------------------------------------------------- LargeFile upload
\* m[k] = v on a Go map.
MapPut(m, k, v) == [i \in DOMAIN m \cup {k} |-> IF i = k THEN v ELSE m[i]]

\* The state of an UploadPart call that holds fc.file.mu.
UploadAt(pc) == {u \in BagToSet(uploads) : u.pc = pc}

UploadMove(u, u2) == (uploads (-) SetToBag({u})) (+) SetToBag({u2})

\* Mutant of MuFree: the lock is taken without waiting for it.
MuIgnored == TRUE

MuFree == mu = "free"

\* Mutant of UploadPartErr: the error is replaced by a generic one.
UploadPartErrWrapped(e) == "upload failed"

\* The error UploadPart returns when makeRequest returned e.
UploadPartErr(e) == e

\* UploadPart(index, sha1, size) whose b2_upload_part request fails:
\* it returns 0 and the error, nothing is recorded.
UploadPartFail ==
    /\ nUploads < MaxUploads
    /\ nUploads' = nUploads + 1
    /\ \E e \in UploadErrs :
         ures' = [n |-> 0, err |-> UploadPartErr(e), cause |-> e]
    /\ UNCHANGED <<hashes, lsize, mu, uploads, fpc, manifest, fres, order>>
    /\ UNCHANGED <<psize, accepted, sent, replaced>>
    /\ UNCHANGED <<rvars, cvars>>

\* UploadPart(index, sha1, size) whose request succeeds, up to the Lock
\* of fc.file.mu.  Before the Lock the call touches nothing of the
\* LargeFile, so calls that are still in their request are not kept.
UploadPartLock(index, sha1, sz) ==
    /\ nUploads < MaxUploads
    /\ nUploads' = nUploads + 1
    /\ MuFree
    /\ mu' = "upload"
    /\ uploads' = uploads (+) SetToBag({[pc |-> "hashes", index |-> index,
                                         sha1 |-> sha1, size |-> sz]})
    /\ accepted' = accepted + sz
    /\ sent' = MapPut(sent, index, sha1)
    /\ UNCHANGED <<hashes, lsize, fpc, manifest, fres, order, psize, replaced>>
    /\ UNCHANGED <<ures, rvars, cvars>>

\* fc.file.hashes[index] = sha1.
UploadPartHashes ==
    \E u \in UploadAt("hashes") :
        /\ hashes' = MapPut(hashes, u.index, u.sha1)
        /\ order' = IF u.index \in DOMAIN hashes THEN order
                    ELSE Append(order, u.index)
        /\ psize' = MapPut(psize, u.index, u.size)
        /\ replaced' = IF u.index \in DOMAIN psize
                          THEN replaced + psize[u.index] ELSE replaced
        /\ uploads' = UploadMove(u, [u EXCEPT !.pc = "size"])
        /\ UNCHANGED <<lsize, mu, fpc, manifest, fres, nUploads>>
        /\ UNCHANGED <<accepted, sent>>
        /\ UNCHANGED <<ures, rvars, cvars>>

RECURSIVE SumOver(_, _)
\* The sum of f[k] for k in S.
SumOver(f, S) ==
    IF S = {} THEN 0
    ELSE LET k == CHOOSE x \in S : TRUE
         IN  f[k] + SumOver(f, S \ {k})

\* Mutant of SizeAdd: the running size is recomputed from the records.
SizeRecomputed(sz) == SumOver(psize, DOMAIN psize)

\* fc.file.size += int64(size).
SizeAdd(sz) == lsize + sz

\* fc.file.size += int64(size), the Unlock, and the return of size, nil.
UploadPartSize ==
    \E u \in UploadAt("size") :
        /\ lsize' = SizeAdd(u.size)
        /\ mu' = "free"
        /\ ures' = [n |-> u.size, err |-> NoErr, cause |-> NoErr]
        /\ uploads' = uploads (-) SetToBag({u})
        /\ UNCHANGED <<hashes, fpc, manifest, fres, nUploads, order>>
        /\ UNCHANGED <<psize, accepted, sent, replaced>>
        /\ UNCHANGED <<rvars, cvars>>

\* The size argument that goes with a sha1 argument: the digest is the
\* digest of the part's bytes and the size is their number, so that equal
\* digests come with equal sizes.  Two of the parts have the same size.
PartSize(sha1) == IF sha1 = "dB" THEN MaxPartSize ELSE 1

UploadPart ==
    \/ UploadPartFail
    \/ \E index \in 0 .. MaxPart : \E sha1 \in Digests :
         UploadPartLock(index, sha1, PartSize(sha1))
    \/ UploadPartHashes
    \/ UploadPartSize

\* make([]string, n): n zero strings at the indexes 0 .. n-1.
MakeHashes(n) == [i \in 0 .. n - 1 |-> EmptyString]

\* Mutant of HashSlot: the part number is used as the index.
HashSlotOneBased(k) == k

\* The index of b2req.Hashes that the loop writes for part number k.
HashSlot(k) == k - 1

\* The loop over l.hashes panics when an index is out of range.
HashesInRange(h) ==
    \A k \in DOMAIN h : HashSlot(k) \in 0 .. Cardinality(DOMAIN h) - 1

\* b2req.Hashes after the loop.
FinishHashes(h) ==
    [i \in DOMAIN MakeHashes(Cardinality(DOMAIN h)) |->
        IF \E k \in DOMAIN h : HashSlot(k) = i
          THEN h[CHOOSE k \in DOMAIN h : HashSlot(k) = i]
          ELSE MakeHashes(Cardinality(DOMAIN h))[i]]

\* Mutant of FinishMu: the lock is given back before the request.
FinishMuReleased == "free"

\* l.mu from the Lock of FinishLargeFile to its deferred Unlock.
FinishMu == "finish"

\* FinishLargeFile takes l.mu and builds b2req; an index out of range
\* panics before any request is made.
FinishLock ==
    /\ fpc = "idle"
    /\ MuFree
    /\ mu' = FinishMu
    /\ IF HashesInRange(hashes)
         THEN /\ manifest' = FinishHashes(hashes)
              /\ fpc' = "request"
         ELSE /\ fpc' = "panic"
              /\ UNCHANGED manifest
    /\ UNCHANGED <<hashes, lsize, uploads, fres, nUploads, order>>
    /\ UNCHANGED <<psize, accepted, sent, replaced>>
    /\ UNCHANGED <<ures, rvars, cvars>>

\* The panic unwinds through the deferred Unlock.
FinishPanic ==
    /\ fpc = "panic"
    /\ fpc' = "returned"
    /\ mu' = "free"
    /\ fres' = [err |-> Panic, size |-> 0]
    /\ UNCHANGED <<hashes, lsize, uploads, manifest, nUploads, order>>
    /\ UNCHANGED <<psize, accepted, sent, replaced>>
    /\ UNCHANGED <<ures, rvars, cvars>>

\* Mutant of FileSize: the sum of the sizes of the recorded parts.
FileSizeRecomputed == SumOver(psize, DOMAIN psize)

\* Size: l.size of the File that FinishLargeFile returns.
FileSize == lsize

\* The b2_finish_large_file request returns: the File with Size l.size,
\* or the error of makeRequest; the deferred Unlock.
FinishRequest ==
    /\ fpc = "request"
    /\ \E ok \in BOOLEAN :
         fres' = IF ok THEN [err |-> NoErr, size |-> FileSize]
                 ELSE [err |-> ErrRequest, size |-> 0]
    /\ fpc' = "returned"
    /\ mu' = "free"
    /\ UNCHANGED <<hashes, lsize, uploads, manifest, nUploads, order>>
    /\ UNCHANGED <<psize, accepted, sent, replaced>>
    /\ UNCHANGED <<ures, rvars, cvars>>

FinishLargeFile == FinishLock \/ FinishPanic \/ FinishRequest

UploadInit ==
    /\ NewReader /\ size = 0 /\ ChunkSize = 0 /\ ConcurrentDownloads = 0
    /\ StartLargeFile
    /\ NoRequest

UploadNext == UploadPart \/ FinishLargeFile

UploadSpec == UploadInit /\ [][UploadNext]_vars

\* ------------------------------------------------ errors and actions
Methods ==
    {"b2_upload_file", "b2_upload_part", "b2_authorize_account",
     "b2_list_buckets"}

StatusCodes == {400, 401, 403, 404, 408, 429, 499, 500, 502, 503, 599, 600}

Headers ==
    {Header("absent", 0), Header("date", 0)}
    \cup {Header("int", n) : n \in (0 - MaxRetry) .. MaxRetry}

\* The replies: the context is done first (cancelled or past its
\* deadline), the transport fails, or a response with a status, a
\* Retry-After header and a body (JSON, not JSON, or unreadable).
Replies ==
    {Reply(k, 0, Header("absent", 0), "json") :
        k \in {"canceled", "deadline", "transport"}}
    \cup {Reply("response", 200, Header("absent", 0), b) :
            b \in {"json", "garbage"}}
    \cup {Reply("response", c, h, "json") : c \in StatusCodes, h \in Headers}
    \cup {Reply("response", c, Header("int", 1), b) :
            c \in StatusCodes, b \in {"garbage", "unreadable"}}

\* mkErr: the error of a response whose status is not 200.
mkErr(method, reply) ==
    IF reply.body = "unreadable" THEN OtherErr("read")
    ELSE IF reply.body = "garbage" THEN OtherErr("json")
    ELSE IF reply.header.form = "date" THEN OtherErr("parse")
    ELSE Err("b2err", method,
             IF reply.header.form = "absent" THEN 0 ELSE reply.header.n,
             reply.code)

\* Whether the call of makeRequest for the method passes a b2resp to
\* decode the body into (UploadPart passes nil).
HasB2resp(method) == method # "b2_upload_part"

\* makeRequest: the error it returns.
makeRequestErr(method, reply) ==
    IF reply.kind \in {"canceled", "deadline"} THEN OtherErr(reply.kind)
    ELSE IF reply.kind = "transport" THEN OtherErr("transport")
    ELSE IF reply.code # 200 THEN mkErr(method, reply)
    ELSE IF HasB2resp(method) /\ reply.body # "json" THEN OtherErr("json")
    ELSE NilErr

\* Mutant of HasRetryAfter: the retry-after value is not looked at.
RetryAfterIgnored(e) == FALSE

\* e.retry > 0.
HasRetryAfter(e) == e.retry > 0

\* Mutant of IsServerError: 599 is left out.
IsServerErrorBelow599(code) == code >= 500 /\ code < 599

\* e.code >= 500 && e.code < 600.
IsServerError(code) == code >= 500 /\ code < 600

\* Mutant of IsUpload: only the upload of a part counts.
IsUploadPartOnly(method) == method = "b2_upload_part"

IsUpload(method) == method = "b2_upload_file" \/ method = "b2_upload_part"

\* Mutant of Unauthorized: the method is not looked at.
UnauthorizedAnyMethod(e) == ReAuthenticate

\* case 401 of the switch.
Unauthorized(e) ==
    IF e.method = "b2_authorize_account" THEN Punt ELSE ReAuthenticate

\* The switch on e.code.
ByCode(e) ==
    IF e.code = 401 THEN Unauthorized(e)
    ELSE IF e.code \in {429, 500, 503} THEN Retry
    ELSE Punt

\* Mutant of NotB2err: such an error is retried.
NotB2errRetried == Retry

\* The action for an error that is not a b2err.
NotB2err == Punt

\* Action.
Action(e) ==
    IF e.kind # "b2err" THEN NotB2err
    ELSE IF HasRetryAfter(e) THEN Retry
    ELSE IF IsServerError(e.code) /\ IsUpload(e.method) THEN AttemptNewUpload
    ELSE ByCode(e)

\* The value of an int64 after wraparound, in the word of the model.
WrapDuration(x) ==
    LET m == 2 ^ DurationBits
        r == x % m
    IN  IF r >= m \div 2 THEN r - m ELSE r

\* Backoff.
Backoff(e) ==
    IF e.kind # "b2err" THEN 0 ELSE WrapDuration(e.retry * Second)

\* makeRequest returns.
MakeRequest ==
    /\ cpc = "request"
    /\ cerr' = makeRequestErr(creq.method, creq.reply)
    /\ cpc' = "returned"
    /\ UNCHANGED <<creq, cact, cback>>
    /\ UNCHANGED <<rvars, uvars>>

\* The caller asks Action about the error.
ClassifyAction ==
    /\ cpc = "returned"
    /\ cerr # NilErr
    /\ cact' = Action(cerr)
    /\ cpc' = "action"
    /\ UNCHANGED <<creq, cerr, cback>>
    /\ UNCHANGED <<rvars, uvars>>

\* The caller asks Backoff about the error.
ClassifyBackoff ==
    /\ cpc = "action"
    /\ cback' = Backoff(cerr)
    /\ cpc' = "classified"
    /\ UNCHANGED <<creq, cerr, cact>>
    /\ UNCHANGED <<rvars, uvars>>

ClassifyInit ==
    /\ NewReader /\ size = 0 /\ ChunkSize = 0 /\ ConcurrentDownloads = 0
    /\ StartLargeFile
    /\ creq \in [method : Methods, reply : Replies]
    /\ cpc = "request"
    /\ cerr = NilErr
    /\ cact = Punt
    /\ cback = 0

ClassifyNext == MakeRequest \/ ClassifyAction \/ ClassifyBackoff

ClassifySpec == ClassifyInit /\ [][ClassifyNext]_vars

\* ------------------------------------------------------------ claims
AllThreadsExited == \A t \in BagToSet(threads) : t.pc = "exit"

\* Chunks claimed by a worker and not yet stored or failed.
InFlight ==
    LET S == AtPc("download") \cup AtPc("store")
    IN  IF S = {} THEN 0 ELSE BagCardinality([t \in S |-> threads[t]])

\* Chunks stored and not yet fully consumed.
Unconsumed == Cardinality({i \in DOMAIN chunks : i >= chrid})

\* C1: the bytes Read has delivered are at every moment the first
\* Len(out) bytes of the object, in order, their number is r.read, and
\* when Read has returned io.EOF they are the whole object.
C1_InOrderDelivery ==
    /\ Len(out) <= size
    /\ out = SubSeqOrEmpty(Object, 1, Len(out))
    /\ read = Len(out)
    /\ eofSeen => out = Object

\* C1 witness: two workers, a chunk stored before a chunk of lower index,
\* and the whole object of MaxSize bytes read up to io.EOF.
C1_Witness ==
    /\ eofSeen /\ reordered /\ cr = 2
    /\ size = MaxSize /\ out = Object
    /\ err = NoErr /\ ~ctxDone

\* C3: once the error is latched the dispatch counter chwid stands still.
C3_NoDispatchAfterError == [][err # NoErr => chwid' = chwid]_vars

\* C4: in-flight plus completed-but-unconsumed chunks never exceed the
\* pool size cr, cr is the configured concurrency (1 when it is below 1),
\* and when Read is about to send a drained buffer the pool has room.
C4_BoundedOutstanding ==
    /\ InFlight + Unconsumed <= cr
    /\ inited => cr = (IF ConcurrentDownloads < 1 THEN 1 ELSE ConcurrentDownloads)
    /\ Len(chbuf) <= cr
    /\ (rdpc = "got" /\ rdbuf # NilBuf /\ ~chbufClosed) => Len(chbuf) < cr

\* C4 witness: concurrency configured below 1, the single buffer was
\* drained, sent back to the pool and is in flight again for chunk 1.
C4_Witness ==
    /\ ConcurrentDownloads = 0 /\ cr = 1
    /\ chrid = 1 /\ InFlight = 1 /\ Unconsumed = 0

\* C5 as stated: once a Read has returned the latched error, every later
\* Read returns that error, whatever Read and Close calls follow.
C5_StickyAlways ==
    (latched # NoErr /\ rdpc = "idle") => rdres.err = latched

\* C5 amended: once a Read has returned the latched error, every later
\* Read returns that error until Close is called, and ctx.Err() after;
\* the latched error is written once and never replaced.
C5_StickyUntilClose ==
    /\ [](  (latched # NoErr /\ rdpc = "idle")
          => (rdres.err = latched \/ (ctxDone /\ rdres.err = Canceled)))
    /\ [](latched # NoErr => err = latched)
    /\ [][err # NoErr => err' = err]_vars

\* C5 witness: two Reads in a row returned the latched error of the
\* range request, with no Close.
C5_Witness ==
    /\ nLatched = 2 /\ latched = ErrRequest /\ rdpc = "idle"
    /\ rdres.err = ErrRequest /\ ~ctxDone

\* C2: with an error latched and no cancellation, a Read that is blocked
\* in curChunk or is called later returns, and returns the latched error.
C2_ReadReturnsError ==
    [](  (err # NoErr /\ rdpc \in {"recv", "got"})
      => <>(ctxDone \/ (rdpc = "idle" /\ rdres.err = err)))

\* C6: a Read parked in curChunk when Close is called is woken by the
\* Done case, and returns, with ctx.Err(), 0 bytes and nothing delivered.
C6_CloseUnblocksRead ==
    /\ [][(rdpc = "recv" /\ ctxDone') => (rdpc' = "done" /\ out' = out)]_vars
    /\ [][rdpc = "done" => (rdpc' = "done" \/
             (rdpc' = "idle" /\ rdres' = [n |-> 0, err |-> Canceled]
              /\ out' = out))]_vars
    /\ (rdpc = "done") ~> (rdpc = "idle" /\ rdres.err = Canceled)

\* C6 witness: Close found the Read parked while its curChunk goroutine
\* waited on the condition variable for a chunk still being downloaded.
C6_Witness ==
    /\ rdpc = "done" /\ blockedAtClose /\ waiters["parked"] = 1
    /\ ChunkAt(chrid) = NilBuf /\ AtPc("download") # {}

\* C7: without failure and cancellation, a consumer that keeps calling
\* Read gets io.EOF, and io.EOF only once r.read equals the object size.
C7_ReachesEOF ==
    /\ <>(eofSeen \/ err # NoErr \/ ctxDone)
    /\ [](eofSeen => read = size)

\* C8: after Close every worker and every curChunk goroutine ends: the
\* workers have returned and none is left parked on the condition
\* variable.
C8_CloseEndsGoroutines ==
    ctxDone ~> (AllThreadsExited /\ waiters["parked"] = 0)

\* C9 as stated: as soon as a Read has brought r.read to the object size
\* (no failure, no cancellation), the pool is closed.
C9_ClosedAsSoonAsRead ==
    (inited /\ read = size /\ rdpc = "idle" /\ err = NoErr /\ ~ctxDone)
        => chbufClosed

\* C9 amended: the pool is closed by the Read that returns io.EOF, which
\* is a Read called after r.read reached the object size, and not before;
\* once the pool is closed every worker returns.
C9_ClosedAtEOF ==
    /\ [](chbufClosed <=> eofSeen)
    /\ [](chbufClosed => (read = size /\ out = Object))
    /\ chbufClosed ~> AllThreadsExited

\* C9 witness: two workers, the whole object read, the pool closed and
\* both workers gone.
C9_Witness ==
    /\ chbufClosed /\ cr = 2 /\ size = MaxSize /\ read = size
    /\ AllThreadsExited /\ err = NoErr /\ ~ctxDone

\* The number of distinct recorded parts, and whether they are 1 .. K.
RecordedParts == Cardinality(DOMAIN hashes)

DenseParts == RecordedParts >= 1 /\ DOMAIN hashes = 1 .. RecordedParts

\* C10: when the recorded parts are exactly 1 .. K, K >= 1, in whatever
\* order they were recorded, FinishLargeFile does not panic and the
\* b2req.Hashes it submits has length K and holds at index p-1 the digest
\* that hashes holds for part p (the last one recorded for p).
C10_ManifestByPartNumber ==
    /\ (fpc = "request" /\ DenseParts) =>
          /\ DOMAIN manifest = 0 .. RecordedParts - 1
          /\ \A p \in 1 .. RecordedParts : manifest[p - 1] = hashes[p]
    /\ fpc = "panic" => ~DenseParts

\* C10 witness: parts recorded in the order 3, 1, 2 and the request of
\* FinishLargeFile carries the digests of parts 1, 2, 3 in that order.
C10_Witness ==
    /\ fpc = "request" /\ order = <<3, 1, 2>>
    /\ hashes = (1 :> "dA" @@ 2 :> "dB" @@ 3 :> "dC")
    /\ manifest = (0 :> "dA" @@ 1 :> "dB" @@ 2 :> "dC")

\* C11: when FinishLargeFile runs on recorded part numbers that are not
\* exactly 1 .. K, it neither submits the request nor panics (it returns
\* a validation error).
C11_ValidationError ==
    (mu = "finish" /\ RecordedParts >= 1 /\ ~DenseParts) =>
        fpc \notin {"request", "panic"}

\* The sum of the sizes of the parts recorded now.
RecordedSize == SumOver(psize, DOMAIN psize)

\* C12 as stated: with no UploadPart call in its critical section, the
\* running size is the sum of the sizes of the parts recorded now (a
\* re-upload changes it by new size - old size).
C12_SizeByDelta == uploads = EmptyBag => lsize = RecordedSize

\* C12 amended: a re-upload replaces the digest of the part (the last
\* write wins) and adds its whole size to the running size; the running
\* size is the sum of the sizes of the parts recorded now plus the sizes
\* of the records that were replaced.
C12_SizeCountsReplaced ==
    uploads = EmptyBag =>
        /\ hashes = sent
        /\ DOMAIN psize = DOMAIN hashes
        /\ lsize = RecordedSize + replaced

\* C12 witness: part 1 was uploaded with digest dA and size 1, then again
\* with digest dB and size MaxPartSize.
C12_Witness ==
    /\ uploads = EmptyBag /\ DOMAIN hashes = {1} /\ hashes[1] = "dB"
    /\ psize[1] = MaxPartSize /\ replaced = 1 /\ lsize = 1 + MaxPartSize

\* C13: the running size is the sum of the size arguments of the
\* UploadPart calls that succeeded, overwrites included (a call that holds
\* the lock has not added its size yet), and the File that a successful
\* FinishLargeFile returns has that running size.
C13_AccumulateOnWrite ==
    /\ [](IF uploads = EmptyBag THEN lsize = accepted
          ELSE \E u \in BagToSet(uploads) : lsize + u.size = accepted)
    /\ [][(fpc = "request" /\ fpc' = "returned" /\ fres'.err = NoErr) =>
             (fres'.size = lsize /\ lsize' = lsize /\ lsize = accepted)]_vars

\* C13 witness: part 1 was uploaded twice, with sizes 1 and MaxPartSize,
\* and FinishLargeFile returned a File of size 1 + MaxPartSize.
C13_Witness ==
    /\ fpc = "returned" /\ fres.err = NoErr /\ fres.size = 1 + MaxPartSize
    /\ replaced = 1 /\ DOMAIN hashes = {1} /\ accepted = 1 + MaxPartSize

\* C14: at most one UploadPart call is between its Lock and its Unlock,
\* so the map write and the size increment of one call are not interleaved
\* with those of another; and once no call is in there, the map holds for
\* every part number the digest of the last call that succeeded for it and
\* the running size has grown by the sizes of all the calls that succeeded.
C14_NoLostUpdate ==
    /\ BagCardinality(uploads) <= 1
    /\ uploads # EmptyBag <=> mu = "upload"
    /\ uploads = EmptyBag =>
          /\ DOMAIN hashes = DOMAIN sent
          /\ \A p \in DOMAIN sent : hashes[p] = sent[p]
          /\ lsize = accepted

\* C14 witness: two calls for the distinct parts 1 and 2 have returned,
\* part 2 recorded first, and both digests and both sizes are there.
C14_Witness ==
    /\ uploads = EmptyBag /\ nUploads = 2 /\ order = <<2, 1>>
    /\ hashes = (1 :> "dA" @@ 2 :> "dB") /\ lsize = 1 + MaxPartSize

\* C15: from the construction of b2req.Hashes to the return of the finish
\* request FinishLargeFile holds l.mu, no UploadPart call is in its
\* critical section, the map and the running size do not change, and the
\* request and the returned File are those of the same recorded parts.
C15_FinishHoldsLock ==
    /\ [](fpc \in {"request", "panic"} => (mu = "finish" /\ uploads = EmptyBag))
    /\ [](fpc = "request" => manifest = FinishHashes(hashes))
    /\ [][fpc = "request" => (hashes' = hashes /\ lsize' = lsize
                               /\ psize' = psize /\ manifest' = manifest)]_vars
    /\ [][(fpc = "request" /\ fpc' = "returned" /\ fres'.err = NoErr) =>
             fres'.size = RecordedSize + replaced]_vars

\* C15 witness: FinishLargeFile is in its request with parts 1 and 2
\* recorded, and an UploadPart call could still be made.
C15_Witness ==
    /\ fpc = "request" /\ mu = "finish" /\ nUploads < MaxUploads
    /\ DOMAIN hashes = {1, 2} /\ DOMAIN manifest = {0, 1}

\* The error is a b2err and Action and Backoff have been applied to it.
Classified == cpc = "classified" /\ cerr.kind = "b2err"

\* The durations that the word of the model holds.
FitsDuration(x) ==
    x >= 0 - 2 ^ (DurationBits - 1) /\ x <= 2 ^ (DurationBits - 1) - 1

\* C16 as stated: a b2err with a non-zero retry-after value d gets the
\* action Retry and the wait d seconds, whatever its code and method.
C16_RetryAfterNonZero ==
    (Classified /\ cerr.retry # 0) =>
        (cact = Retry /\ cback = cerr.retry * Second)

\* C16 amended: a b2err with a positive retry-after value d gets the
\* action Retry whatever its code and method, and the wait is d seconds
\* when d seconds fit a Duration; a negative d does not count for Action,
\* which answers as for the same error without retry-after.
C16_RetryAfterPositive ==
    Classified =>
        /\ cerr.retry > 0 => cact = Retry
        /\ FitsDuration(cerr.retry * Second) => cback = cerr.retry * Second
        /\ cerr.retry < 0 => cact = Action([cerr EXCEPT !.retry = 0])

\* C16 witness: a 401 of b2_authorize_account, which without retry-after
\* is Punt, with Retry-After: 5.
C16_Witness ==
    /\ Classified /\ cerr.code = 401 /\ cerr.method = "b2_authorize_account"
    /\ cerr.retry = 5 /\ cact = Retry /\ cback = 5 * Second

\* C17 as stated: a 503 without retry-after gets the action Retry and the
\* wait 0, whatever the method.
C17_Retry503AnyOp ==
    (Classified /\ cerr.code = 503 /\ cerr.retry = 0) =>
        (cact = Retry /\ cback = 0)

\* C17 amended: a 503 without retry-after gets the wait 0, and the action
\* Retry for every method but b2_upload_file and b2_upload_part, for
\* which the action is AttemptNewUpload.
C17_Retry503 ==
    (Classified /\ cerr.code = 503 /\ cerr.retry = 0) =>
        /\ cback = 0
        /\ cact = IF cerr.method \in {"b2_upload_file", "b2_upload_part"}
                    THEN AttemptNewUpload ELSE Retry

\* C17 witness: a 503 of b2_list_buckets with no Retry-After header.
C17_Witness ==
    /\ Classified /\ cerr.code = 503 /\ cerr.method = "b2_list_buckets"
    /\ creq.reply.header.form = "absent" /\ cact = Retry /\ cback = 0

\* C18: a b2err without retry-after whose code is in 500 .. 599 gets the
\* action AttemptNewUpload when its method is b2_upload_file or
\* b2_upload_part, and never when it is another method.
C18_NewUploadOn5xx ==
    (Classified /\ cerr.retry = 0 /\ cerr.code \in 500 .. 599) =>
        (cact = AttemptNewUpload
            <=> cerr.method \in {"b2_upload_file", "b2_upload_part"})

\* C18 witness: a 500 of b2_upload_part with no Retry-After header.
C18_Witness ==
    /\ Classified /\ cerr.code = 500 /\ cerr.method = "b2_upload_part"
    /\ cerr.retry = 0 /\ cact = AttemptNewUpload

\* C19: a b2err without retry-after that is not a 5xx of an upload is
\* classified by its code: 401 is ReAuthenticate, but Punt when the method
\* is b2_authorize_account; 429, 500 and 503 are Retry; every other code
\* is Punt; and the wait is 0.
C19_ByStatusCode ==
    (/\ Classified /\ cerr.retry = 0
     /\ ~(/\ cerr.code \in 500 .. 599
          /\ cerr.method \in {"b2_upload_file", "b2_upload_part"})) =>
        /\ cback = 0
        /\ cact = IF cerr.code = 401
                    THEN IF cerr.method = "b2_authorize_account"
                           THEN Punt ELSE ReAuthenticate
                    ELSE IF cerr.code \in {429, 500, 503} THEN Retry
                    ELSE Punt

\* C19 witness: a 401 of b2_authorize_account with no Retry-After header
\* is Punt.
C19_Witness ==
    /\ Classified /\ cerr.code = 401 /\ cerr.method = "b2_authorize_account"
    /\ cerr.retry = 0 /\ cact = Punt /\ cback = 0

\* C20: an error that is not a b2err (the context's cancellation or
\* deadline error that makeRequest returns, a transport error, an error
\* of reading or parsing the response) gets the action Punt and the wait 0.
C20_OtherErrorsPunt ==
    (cpc = "classified" /\ cerr.kind # "b2err") =>
        (cact = Punt /\ cback = 0)

\* C20 witness: the context of a b2_upload_part request is cancelled
\* before the reply, and the error is classified Punt.
C20_Witness ==
    /\ cpc = "classified" /\ creq.method = "b2_upload_part"
    /\ creq.reply.kind = "canceled" /\ cerr.kind = "canceled"
    /\ cact = Punt /\ cback = 0

\* C21: r.chunks holds only chunks that are complete and not yet consumed:
\* no entry has an index below the consume index chrid, and there are
\* never more entries than workers.
C21_ChunksOnlyUnconsumed ==
    inited =>
        /\ \A i \in DOMAIN chunks : i >= chrid
        /\ Cardinality(DOMAIN chunks) <= cr

\* The number of chunks of the object: ceil(size / csize).
NumChunks == (size + csize - 1) \div csize

\* The Range header for the bytes [i * csize, min((i + 1) * csize, size)).
ChunkRange(i) == <<i * csize, Min((i + 1) * csize, size) - 1>>

\* How many workers hold index i and have still to issue its request.
Pending(i) ==
    LET S == {t \in AtPc("download") : t.id = i}
    IN  SumOver([t \in S |-> CopiesIn(t, threads)], S)

\* C22: the indexes are claimed in the order 0, 1, 2, ... with none twice
\* and none skipped; the worker that claimed i issues one range request
\* for [i * csize, min((i + 1) * csize, size)) if i * csize < size and none
\* otherwise; after a read to the end without failure the requests are
\* ceil(size / csize) in number and their ranges partition [0, size).
C22_DispatchInOrder ==
    inited =>
        /\ claimed = [k \in 1 .. chwid |-> k - 1]
        /\ \A i \in 0 .. chwid - 1 :
             IF i * csize < size
               THEN CopiesIn(ChunkRange(i), requested) + Pending(i) = 1
               ELSE Pending(i) = 0
        /\ \A r \in BagToSet(requested) :
             \E i \in 0 .. chwid - 1 : i * csize < size /\ r = ChunkRange(i)
        /\ (eofSeen /\ err = NoErr) =>
             /\ BagCardinality(requested) = NumChunks
             /\ \A b \in 0 .. size - 1 :
                  Cardinality({r \in BagToSet(requested) :
                                  r[1] <= b /\ b <= r[2]}) = 1
             /\ \A r \in BagToSet(requested) :
                  /\ CopiesIn(r, requested) = 1
                  /\ 0 <= r[1] /\ r[1] <= r[2] /\ r[2] < size

\* C22 witness: two workers read an object of two chunks to the end; two
\* requests were issued, for the bytes 0 and 1, and a third index was
\* claimed for which none was issued.
C22_Witness ==
    /\ eofSeen /\ err = NoErr /\ size = 2 /\ csize = 1 /\ cr = 2
    /\ claimed = <<0, 1, 2>>
    /\ requested = SetToBag({<<0, 0>>, <<1, 1>>})

\* C23: an UploadPart call whose request fails returns 0 and the error of
\* the request as it is, and changes neither the map of hashes nor the
\* running size nor the lock; the records hold only the parts of the calls
\* whose request succeeded and the size counts only their sizes.
C23_FailedPartLeavesNoTrace ==
    /\ [][(nUploads' # nUploads /\ uploads' = uploads) =>
            /\ ures'.n = 0
            /\ ures'.cause \in UploadErrs
            /\ ures'.err = ures'.cause
            /\ UNCHANGED <<hashes, lsize, mu, manifest, fpc, fres, order,
                           psize, accepted, sent, replaced>>]_vars
    /\ [](uploads = EmptyBag => (hashes = sent /\ lsize = accepted))
    /\ [](fpc = "request" =>
            (manifest = FinishHashes(sent) /\ lsize = accepted))

\* C23 witness: part 1 is uploaded, a second call is cancelled and
\* returns 0 and the context's error, and the file is finished with the
\* one part and its size.
C23_Witness ==
    /\ nUploads = 2 /\ uploads = EmptyBag
    /\ ures = [n |-> 0, err |-> Canceled, cause |-> Canceled]
    /\ hashes = (1 :> "dA") /\ lsize = 1
    /\ fpc = "returned" /\ fres = [err |-> NoErr, size |-> 1]
    /\ manifest = (0 :> "dA")

\* C24: once a Read has returned io.EOF, every further Read on the Reader
\* (no Close, no latched error) returns 0 and io.EOF again: the pool is
\* not closed a second time.
C24_ReadAfterEOF ==
    [][(eofSeen /\ ~ctxDone /\ err = NoErr /\ rdpc = "got" /\ rdpc' = "idle")
          => rdres' = [n |-> 0, err |-> EOF]]_vars

====
